---- MODULE Spec2Model ----
(***************************************************************************)
(* Workflow orchestrator of googleapis/generator (package command).       *)
(* The three commands configure, generate and update-repo are modelled    *)
(* step by step, in both variants of the command file, together with the  *)
(* output allocator defaultOutput and verifyLanguageRepoExists.            *)
(***************************************************************************)
EXTENDS Integers, Sequences, FiniteSets, TLC

VARIABLES
    variant,    \* which of the two command files is built (1 or 2)
    cmd,        \* the command whose Run is executing
    flags,      \* the package-level flag variables (flagAPIRoot, ...)
    parsed,     \* history: the flag values right after Parse
    pc,         \* the statement of Run about to execute, or "done"/"failed"
    result,     \* the error Run returned (nil until it returns an error)
    calls,      \* history: the calls Run made, with what each returned
    fs,         \* the directories that exist on disk
    fs0,        \* history: the directories that existed when Run started
    zone,       \* the host's local time zone (time.Now() is local time)
    allocs,     \* history of defaultOutput calls (allocator specification)
    procs,      \* concurrent defaultOutput calls (race specification)
    commands,   \* the package variable Commands
    lookups     \* history of Lookup calls (lookup specification)

vars == <<variant, cmd, flags, parsed, pc, result, calls, fs, fs0, zone, allocs,
          procs, commands, lookups>>

\* A bound: the number of sequential defaultOutput calls explored.
MaxAllocs == 2

\* A bound: the number of defaultOutput calls running at the same time.
NumProcs == 2

\* A bound: the number of Lookup calls explored.
MaxLookups == 3

----------------------------------------------------------------------------
\* Paths are sequences of components; the empty string "" of a path flag is
\* the empty sequence.

NoPath == << >>

Join(dir, name) == Append(dir, name)

Dir(path) == IF Len(path) <= 1 THEN path ELSE SubSeq(path, 1, Len(path) - 1)

TempDir == <<"tmp">>

\* Errors: nil, or an error value with its message, the path and detail it
\* formats in, and the wrapped cause (%w).
Err(msg, path, detail, cause) ==
    [msg |-> msg, path |-> path, detail |-> detail, cause |-> cause]

nil == Err("nil", NoPath, "", "")

\* The errors an external collaborator (git clone, the container) may return.
ExtErrors ==
    { Err("exit status 1", NoPath, "", ""), Err("signal: killed", NoPath, "", "") }

ExtResults == {nil} \cup ExtErrors

supportedLanguages == {"dotnet", "go"}

Languages == {"go", "python"}

LanguageRepoName(language) == "google-cloud-" \o language

\* Where the clones land.
CloneParent == <<"tmp", "generator-clones">>

GoogleapisDir == Join(CloneParent, "googleapis")

LanguageRepoDir(language) == Join(CloneParent, LanguageRepoName(language))

----------------------------------------------------------------------------
\* Time.  Seconds count from 2024-11-01 00:00:00 UTC.  A time.Time carries the
\* instant (sec, nsec) and the UTC offset of its location; time.Now() is in
\* the host's local zone.

Zones == {"UTC", "America/Los_Angeles"}

\* 2024-11-03 09:00:00 UTC, when America/Los_Angeles leaves daylight time.
DaylightEnd == 2 * 86400 + 9 * 3600

ZoneOffset(z, sec) ==
    IF z = "UTC" THEN 0
    ELSE IF sec < DaylightEnd THEN 0 - 7 * 3600 ELSE 0 - 8 * 3600

\* 2024-11-03 08:30:00 UTC
BaseSecond == 2 * 86400 + 8 * 3600 + 30 * 60

Seconds == {BaseSecond, BaseSecond + 1, BaseSecond + 3600}

Nanos == {0, 500000000}

Now(z) ==
    { [sec |-> s, nsec |-> n, offset |-> ZoneOffset(z, s)] : s \in Seconds, n \in Nanos }

Digit(d) ==
    CASE d = 0 -> "0" [] d = 1 -> "1" [] d = 2 -> "2" [] d = 3 -> "3" [] d = 4 -> "4"
      [] d = 5 -> "5" [] d = 6 -> "6" [] d = 7 -> "7" [] d = 8 -> "8" [] d = 9 -> "9"

TwoDigits(n) == Digit((n \div 10) % 10) \o Digit(n % 10)

\* t.Format("20060102150405"): the wall clock of t in t's location, to the
\* second, with no zone.
Format(t) ==
    LET wall == t.sec + t.offset
    IN  "2024" \o "11" \o TwoDigits(1 + (wall \div 86400))
          \o TwoDigits((wall % 86400) \div 3600)
          \o TwoDigits((wall % 3600) \div 60)
          \o TwoDigits(wall % 60)

----------------------------------------------------------------------------
\* The filesystem calls.  fault names what the environment makes fail:
\* "stat" (os.Stat fails other than with not-exist), "mkdir" (os.Mkdir is
\* denied) or "none".

Faults == {"none", "stat", "mkdir"}

Stat(dirs, path, fault) ==
    IF fault = "stat" THEN "EACCES"
    ELSE IF path \in dirs THEN "ok" ELSE "ENOENT"

\* Mutant: the directory is made with os.MkdirAll, which succeeds when the
\* directory is already there.
MkdirAll(dirs, path, fault) ==
    IF fault = "mkdir" THEN [dirs |-> dirs, errno |-> "EACCES"]
    ELSE [dirs |-> dirs \cup {path}, errno |-> "ok"]

\* os.Mkdir: creates the directory, and fails when it is already there.
Mkdir(dirs, path, fault) ==
    IF fault = "mkdir" THEN [dirs |-> dirs, errno |-> "EACCES"]
    ELSE IF path \in dirs THEN [dirs |-> dirs, errno |-> "EEXIST"]
    ELSE [dirs |-> dirs \cup {path}, errno |-> "ok"]

defaultOutputPath(t) == Join(TempDir, "generator-" \o Format(t))

defaultOutput(t, dirs, fault) ==
    LET path == defaultOutputPath(t)
        st   == Stat(dirs, path, fault)
    IN  CASE st = "ENOENT" ->
               IF fault = "mkdir"
               THEN [path |-> NoPath, dirs |-> dirs,
                     err |-> Err("unable to create default output path", path, "", "EACCES")]
               ELSE [path |-> path, dirs |-> dirs \cup {path}, err |-> nil]
          [] st = "ok" ->
               [path |-> NoPath, dirs |-> dirs,
                err |-> Err("default output path already exists", path, "", "")]
          [] OTHER ->
               [path |-> NoPath, dirs |-> dirs,
                err |-> Err("unable to check directory", path, "", st)]

\* Mutant: a missing language repository is not reported.
verifyLanguageRepoMissingIsFine(repoRoot, language, dirs, fault) ==
    LET path == Join(repoRoot, LanguageRepoName(language))
        st   == Stat(dirs, path, fault)
    IN  CASE st \in {"ok", "ENOENT"} -> nil
          [] OTHER -> Err("unable to check language repo", path, "", st)

verifyLanguageRepoExists(repoRoot, language, dirs, fault) ==
    LET path == Join(repoRoot, LanguageRepoName(language))
        st   == Stat(dirs, path, fault)
    IN  CASE st = "ok" -> nil
          [] st = "ENOENT" -> Err("language repo not found", path, "", "")
          [] OTHER -> Err("unable to check language repo", path, "", st)

\* Mutant: commit of the first variant does nothing, like the second's.
commitDoesNothing(v) == nil

commit(v) == IF v = 1 THEN Err("commit is not implemented", NoPath, "", "") ELSE nil

push(v) == IF v = 1 THEN Err("push is not implemented", NoPath, "", "") ELSE nil

----------------------------------------------------------------------------
\* The commands.

\* The registered commands, each with its Name and Short.
Commands ==
    << [Name |-> "configure", Short |-> "Configure a new API in a given language"],
       [Name |-> "generate", Short |-> "Generate a new client library"],
       [Name |-> "update-repo", Short |-> "Configure a new API in a given language"] >>

\* A *Command is the position of the command in the list; nil is 0.
NilCommand == 0

\* The loop of Lookup from position i on: found is the variable cmd of
\* Lookup, assigned at every match.
RECURSIVE LookupLoop(_, _, _, _)
LookupLoop(cmds, name, i, found) ==
    IF i > Len(cmds) THEN found
    ELSE LookupLoop(cmds, name, i + 1, IF cmds[i].Name = name THEN i ELSE found)

\* Mutant: the nil check after the loop is missing.
LookupWithoutNilCheck(cmds, name) ==
    [cmd |-> LookupLoop(cmds, name, 1, NilCommand), err |-> nil]

Lookup(cmds, name) ==
    LET found == LookupLoop(cmds, name, 1, NilCommand)
    IN  IF found = NilCommand
        THEN [cmd |-> NilCommand, err |-> Err("invalid command", NoPath, name, "")]
        ELSE [cmd |-> found, err |-> nil]

\* The errors of the checks at the head of each Run.
ErrAPIRoot == Err("-api-root is not provided", NoPath, "", "")
ErrAPIPath == Err("-api-path is not provided", NoPath, "", "")
ErrLanguage(language) == Err("invalid -language flag specified", NoPath, language, "")
ErrToken == Err("-github-token must be provided if -push is set to true", NoPath, "", "")

\* Mutant: generate of the first variant forgets the language check.
ChecksWithoutLanguage(v, c) ==
    CASE v = 1 /\ c = "configure" -> <<"apiRoot", "apiPath", "language", "token">>
      [] v = 1 /\ c = "generate" -> <<"apiPath">>
      [] v = 1 /\ c = "update-repo" -> <<"apiPath", "language">>
      [] v = 2 /\ c = "configure" -> <<"apiRoot", "apiPath", "token">>
      [] v = 2 /\ c = "generate" -> <<"apiRoot", "apiPath">>
      [] v = 2 /\ c = "update-repo" -> << >>

\* Mutant: configure checks -api-path before -api-root.
ChecksAPIPathFirst(v, c) ==
    CASE c = "configure" /\ v = 1 -> <<"apiPath", "apiRoot", "language", "token">>
      [] c = "configure" /\ v = 2 -> <<"apiPath", "apiRoot", "token">>
      [] c = "generate" /\ v = 1 -> <<"apiPath", "language">>
      [] c = "generate" /\ v = 2 -> <<"apiRoot", "apiPath">>
      [] c = "update-repo" /\ v = 1 -> <<"apiPath", "language">>
      [] c = "update-repo" /\ v = 2 -> << >>

\* The checks of c's Run, in program order.  The second variant checks no
\* language, and its update-repo checks nothing.
Checks(v, c) ==
    CASE v = 1 /\ c = "configure" -> <<"apiRoot", "apiPath", "language", "token">>
      [] v = 1 /\ c = "generate" -> <<"apiPath", "language">>
      [] v = 1 /\ c = "update-repo" -> <<"apiPath", "language">>
      [] v = 2 /\ c = "configure" -> <<"apiRoot", "apiPath", "token">>
      [] v = 2 /\ c = "generate" -> <<"apiRoot", "apiPath">>
      [] v = 2 /\ c = "update-repo" -> << >>

\* Mutant: the token check tests !flagPush instead of flagPush.
FailsPushNegated(check, f) ==
    CASE check = "apiRoot" -> f.apiRoot = NoPath
      [] check = "apiPath" -> f.apiPath = ""
      [] check = "language" -> f.language \notin supportedLanguages
      [] check = "token" -> ~f.push /\ f.githubToken = ""

\* The condition of each check's if statement.
Fails(check, f) ==
    CASE check = "apiRoot" -> f.apiRoot = NoPath
      [] check = "apiPath" -> f.apiPath = ""
      [] check = "language" -> f.language \notin supportedLanguages
      [] check = "token" -> f.push /\ f.githubToken = ""

\* The error each check returns.
CheckError(check, f) ==
    CASE check = "apiRoot" -> ErrAPIRoot
      [] check = "apiPath" -> ErrAPIPath
      [] check = "language" -> ErrLanguage(f.language)
      [] check = "token" -> ErrToken

\* The error of the first check that fails, nil when none does.
Validate(v, c, f) ==
    LET ch     == Checks(v, c)
        failed == {i \in 1..Len(ch) : Fails(ch[i], f)}
    IN  IF failed = {} THEN nil
        ELSE CheckError(ch[CHOOSE i \in failed : \A j \in failed : i <= j], f)

\* Mutant: update-repo returns after commit, without push.
ChainWithoutPush(v, c) ==
    CASE c = "configure" -> <<"validate", "configure">>
      [] c = "generate" /\ v = 1 ->
           <<"validate", "cloneGoogleapis", "cloneLanguageRepo",
             "verifyLanguageRepoExists", "defaultOutput", "generate">>
      [] c = "generate" /\ v = 2 -> <<"validate", "generate">>
      [] c = "update-repo" /\ v = 1 ->
           <<"validate", "cloneGoogleapis", "defaultOutput", "cloneLanguageRepo",
             "generate", "clean", "build", "commit">>
      [] c = "update-repo" /\ v = 2 -> <<"generate", "clean", "build", "commit">>

\* The statements of each Run, in program order.
Chain(v, c) ==
    CASE v = 1 /\ c = "configure" -> <<"validate", "configure">>
      [] v = 1 /\ c = "generate" ->
           <<"validate", "cloneGoogleapis", "cloneLanguageRepo",
             "verifyLanguageRepoExists", "defaultOutput", "generate">>
      [] v = 1 /\ c = "update-repo" ->
           <<"validate", "cloneGoogleapis", "defaultOutput", "cloneLanguageRepo",
             "generate", "clean", "build", "commit", "push">>
      [] v = 2 /\ c = "configure" -> <<"validate", "configure">>
      [] v = 2 /\ c = "generate" -> <<"validate", "generate">>
      [] v = 2 /\ c = "update-repo" -> <<"generate", "clean", "build", "commit", "push">>

Index(seq, x) == CHOOSE i \in 1..Len(seq) : seq[i] = x

\* The statement after step in c's Run, "done" after the last one.
NextStep(v, c, step) ==
    LET ch == Chain(v, c)
        i  == Index(ch, step)
    IN  IF i = Len(ch) THEN "done" ELSE ch[i + 1]

\* Mutant: the error of clean is not checked.
AfterStepIgnoresClean(v, c, step, e) ==
    IF e # nil /\ step # "clean" THEN "failed" ELSE NextStep(v, c, step)

\* Mutant: a failed statement is tried again.
AfterStepRetries(v, c, step, e) == IF e # nil THEN step ELSE NextStep(v, c, step)

\* What Run does with the error e of the statement at step: return it, or go on.
AfterStep(v, c, step, e) == IF e # nil THEN "failed" ELSE NextStep(v, c, step)

Returned(e) == e

\* An entry of the call history.
Call(op, f, e) ==
    [op |-> op, language |-> f.language, apiRoot |-> f.apiRoot, apiPath |-> f.apiPath,
     repoRoot |-> f.repoRoot, output |-> f.output, generatorInput |-> f.generatorInput,
     err |-> e]

\* The arguments the driver is handed: the second variant passes no language
\* and "" for the generator input.
DriverArgs(v, f) ==
    IF v = 1 THEN f ELSE [f EXCEPT !.language = "", !.generatorInput = ""]

----------------------------------------------------------------------------
\* Initial states: flags parsed, Run about to start.

FlagValues ==
    [apiRoot : {NoPath, <<"src", "googleapis">>},
     apiPath : {"", "google/spanner/v1"},
     repoRoot : {NoPath, <<"repos">>},
     output : {NoPath, <<"out">>},
     language : Languages,
     generatorInput : {"", "generator-input"},
     push : BOOLEAN,
     githubToken : {"", "token"},
     branch : {"", "main"}]

\* The directories on disk before the run: the caller's language repositories
\* may or may not be there.
InitialDirs ==
    { {TempDir} \cup d : d \in SUBSET { Join(<<"repos">>, LanguageRepoName("go")) } }

Init ==
    /\ variant \in {1, 2}
    /\ cmd \in {Commands[i].Name : i \in 1..Len(Commands)}
    /\ flags \in FlagValues
    /\ parsed = flags
    /\ pc = Chain(variant, cmd)[1]
    /\ result = nil
    /\ calls = << >>
    /\ fs \in InitialDirs
    /\ fs0 = fs
    /\ zone \in Zones
    /\ allocs = << >>
    /\ procs = << >>
    /\ commands = Commands
    /\ lookups = << >>

----------------------------------------------------------------------------
\* The steps of Run.

\* Mutant: the API definitions are cloned over a caller-supplied -api-root.
NeedsAPIRootAlways(f) == TRUE

\* Mutant: generate clones the language repository over a caller-supplied
\* -repo-root.
NeedsLanguageCloneAlways(c, f) == TRUE

\* Mutant: update-repo clones only when -repo-root is empty, like generate.
NeedsLanguageCloneWhenEmpty(c, f) == f.repoRoot = NoPath

\* The conditions under which Run resolves an input itself.
NeedsAPIRoot(f) == f.apiRoot = NoPath

\* generate clones only when -repo-root is empty; update-repo always clones.
NeedsLanguageClone(c, f) == c = "update-repo" \/ f.repoRoot = NoPath

NeedsOutput(f) == f.output = NoPath

Running == pc \notin {"done", "failed"}

\* Leave the statement at pc with error e.
Leave(e) ==
    /\ pc' = AfterStep(variant, cmd, pc, e)
    /\ result' = IF e # nil THEN Returned(e) ELSE result

StepValidate ==
    /\ pc = "validate"
    /\ Leave(Validate(variant, cmd, flags))
    /\ UNCHANGED <<variant, cmd, flags, parsed, calls, fs, fs0, zone, allocs, procs, commands, lookups>>

StepCloneGoogleapis ==
    /\ pc = "cloneGoogleapis"
    /\ IF NeedsAPIRoot(flags)
       THEN \E e \in ExtResults :
              /\ calls' = Append(calls, Call("cloneGoogleapis", flags, e))
              /\ fs' = IF e = nil THEN fs \cup {CloneParent, GoogleapisDir} ELSE fs
              /\ flags' = IF e = nil THEN [flags EXCEPT !.apiRoot = GoogleapisDir] ELSE flags
              /\ Leave(e)
       ELSE /\ Leave(nil)
            /\ UNCHANGED <<calls, fs, flags>>
    /\ UNCHANGED <<variant, cmd, parsed, fs0, zone, allocs, procs, commands, lookups>>

\* generate keeps the parent of the clone as the repo root; update-repo drops
\* the clone's result.
StepCloneLanguageRepo ==
    /\ pc = "cloneLanguageRepo"
    /\ IF NeedsLanguageClone(cmd, flags)
       THEN \E e \in ExtResults :
              /\ calls' = Append(calls, Call("cloneLanguageRepo", flags, e))
              /\ fs' = IF e = nil
                       THEN fs \cup {CloneParent, LanguageRepoDir(flags.language)}
                       ELSE fs
              /\ flags' = IF e = nil /\ cmd = "generate"
                          THEN [flags EXCEPT !.repoRoot = Dir(LanguageRepoDir(flags.language))]
                          ELSE flags
              /\ Leave(e)
       ELSE /\ Leave(nil)
            /\ UNCHANGED <<calls, fs, flags>>
    /\ UNCHANGED <<variant, cmd, parsed, fs0, zone, allocs, procs, commands, lookups>>

StepVerifyLanguageRepoExists ==
    /\ pc = "verifyLanguageRepoExists"
    /\ \E fault \in Faults \ {"mkdir"} :
         LET e == verifyLanguageRepoExists(flags.repoRoot, flags.language, fs, fault)
         IN  /\ calls' = Append(calls, Call("verifyLanguageRepoExists", flags, e))
             /\ Leave(e)
    /\ UNCHANGED <<variant, cmd, flags, parsed, fs, fs0, zone, allocs, procs, commands, lookups>>

StepDefaultOutput ==
    /\ pc = "defaultOutput"
    /\ IF NeedsOutput(flags)
       THEN \E t \in Now(zone), fault \in Faults :
              LET r == defaultOutput(t, fs, fault)
              IN  /\ calls' = Append(calls, Call("defaultOutput", flags, r.err))
                  /\ fs' = r.dirs
                  /\ flags' = IF r.err = nil THEN [flags EXCEPT !.output = r.path] ELSE flags
                  /\ Leave(r.err)
       ELSE /\ Leave(nil)
            /\ UNCHANGED <<calls, fs, flags>>
    /\ UNCHANGED <<variant, cmd, parsed, fs0, zone, allocs, procs, commands, lookups>>

\* Mutant: a failed driver call removes the output directory.
DriverRollsBack(op) ==
    /\ pc = op
    /\ \E e \in ExtResults :
         /\ calls' = Append(calls, Call(op, DriverArgs(variant, flags), e))
         /\ fs' = IF e # nil THEN fs \ {flags.output} ELSE fs
         /\ Leave(e)
    /\ UNCHANGED <<variant, cmd, flags, parsed, fs0, zone, allocs, procs, commands, lookups>>

\* A call of the Generation Driver: container.Configure/Generate/Clean/Build.
Driver(op) ==
    /\ pc = op
    /\ \E e \in ExtResults :
         /\ calls' = Append(calls, Call(op, DriverArgs(variant, flags), e))
         /\ Leave(e)
    /\ UNCHANGED <<variant, cmd, flags, parsed, fs, fs0, zone, allocs, procs, commands, lookups>>

StepConfigure == Driver("configure")

StepGenerate == Driver("generate")

StepClean == Driver("clean")

StepBuild == Driver("build")

StepCommit ==
    /\ pc = "commit"
    /\ calls' = Append(calls, Call("commit", flags, commit(variant)))
    /\ Leave(commit(variant))
    /\ UNCHANGED <<variant, cmd, flags, parsed, fs, fs0, zone, allocs, procs, commands, lookups>>

StepPush ==
    /\ pc = "push"
    /\ calls' = Append(calls, Call("push", flags, push(variant)))
    /\ Leave(push(variant))
    /\ UNCHANGED <<variant, cmd, flags, parsed, fs, fs0, zone, allocs, procs, commands, lookups>>

Next ==
    \/ StepValidate
    \/ StepCloneGoogleapis
    \/ StepCloneLanguageRepo
    \/ StepVerifyLanguageRepoExists
    \/ StepDefaultOutput
    \/ StepConfigure
    \/ StepGenerate
    \/ StepClean
    \/ StepBuild
    \/ StepCommit
    \/ StepPush

Spec == Init /\ [][Next]_vars

\* Every call Run makes returns, so Run goes on to its next statement.
FairSpec == Spec /\ WF_vars(Next)

----------------------------------------------------------------------------
\* The command line.  init gives each command its own flag set; Parse sets
\* the variables of the flags that set registers, and the others keep the
\* value they were declared with.

FlagNames ==
    {"apiRoot", "apiPath", "repoRoot", "output", "language", "generatorInput", "push",
     "githubToken", "branch"}

\* The flags init adds to c's flag set.
Registered(v, c) ==
    CASE v = 1 /\ c = "configure" ->
           {"apiPath", "apiRoot", "generatorInput", "language", "push"}
      [] v = 1 /\ c = "generate" ->
           {"apiPath", "apiRoot", "generatorInput", "language", "output"}
      [] v = 2 /\ c = "configure" -> {"apiPath", "apiRoot", "language", "push"}
      [] v = 2 /\ c = "generate" -> {"apiPath", "apiRoot", "language", "output"}
      [] c = "update-repo" ->
           {"apiPath", "apiRoot", "branch", "githubToken", "language", "output", "push"}

\* The flag variables c's Run reads.
Reads(v, c) ==
    CASE v = 1 /\ c = "configure" ->
           {"apiRoot", "apiPath", "language", "push", "githubToken", "generatorInput"}
      [] v = 1 /\ c = "generate" ->
           {"apiPath", "language", "apiRoot", "repoRoot", "output", "generatorInput"}
      [] v = 1 /\ c = "update-repo" ->
           {"apiPath", "language", "apiRoot", "output", "generatorInput"}
      [] v = 2 /\ c = "configure" -> {"apiRoot", "apiPath", "push", "githubToken"}
      [] v = 2 /\ c = "generate" -> {"apiRoot", "apiPath", "output"}
      [] v = 2 /\ c = "update-repo" -> {"apiRoot", "apiPath", "output"}

\* The values of the flag variables before Parse.
FlagDefaults ==
    [apiRoot |-> NoPath, apiPath |-> "", repoRoot |-> NoPath, output |-> NoPath,
     language |-> "", generatorInput |-> "", push |-> FALSE, githubToken |-> "",
     branch |-> ""]

\* The flag variables after c.Parse(args), args giving a value to each flag
\* of the command line.
Parse(v, c, args) ==
    [k \in FlagNames |-> IF k \in Registered(v, c) THEN args[k] ELSE FlagDefaults[k]]

\* Run started from the command line: the flag variables hold what the
\* command's own flag set parsed.
InitCLI ==
    /\ variant \in {1, 2}
    /\ cmd \in {Commands[i].Name : i \in 1..Len(Commands)}
    /\ \E args \in FlagValues : flags = Parse(variant, cmd, args)
    /\ parsed = flags
    /\ pc = Chain(variant, cmd)[1]
    /\ result = nil
    /\ calls = << >>
    /\ fs \in InitialDirs
    /\ fs0 = fs
    /\ zone \in Zones
    /\ allocs = << >>
    /\ procs = << >>
    /\ commands = Commands
    /\ lookups = << >>

SpecCLI == InitCLI /\ [][Next]_vars

----------------------------------------------------------------------------
\* The output allocator on its own: defaultOutput called up to MaxAllocs
\* times in a row on one host, each time with the current local time, from a
\* temp root holding no generator directory.

InitAlloc ==
    /\ variant = 1
    /\ cmd = "generate"
    /\ flags = [apiRoot |-> <<"src", "googleapis">>, apiPath |-> "google/spanner/v1",
                repoRoot |-> <<"repos">>, output |-> NoPath, language |-> "go",
                generatorInput |-> "", push |-> FALSE, githubToken |-> "", branch |-> ""]
    /\ parsed = flags
    /\ pc = "defaultOutput"
    /\ result = nil
    /\ calls = << >>
    /\ fs = {TempDir}
    /\ fs0 = fs
    /\ zone \in Zones
    /\ allocs = << >>
    /\ procs = << >>
    /\ commands = Commands
    /\ lookups = << >>

\* The clock does not run backwards between two calls.
NotBefore(a, b) == a.sec < b.sec \/ (a.sec = b.sec /\ a.nsec <= b.nsec)

Allocate ==
    /\ Len(allocs) < MaxAllocs
    /\ \E t \in Now(zone), fault \in Faults :
         /\ allocs # << >> => NotBefore(allocs[Len(allocs)].t, t)
         /\ LET r == defaultOutput(t, fs, fault)
            IN  /\ fs' = r.dirs
                /\ allocs' = Append(allocs, [t |-> t, fault |-> fault, path |-> r.path,
                                             err |-> r.err, before |-> fs, after |-> r.dirs])
    /\ UNCHANGED <<variant, cmd, flags, parsed, pc, result, calls, fs0, zone,
                   procs, commands, lookups>>

NextAlloc == Allocate

SpecAlloc == InitAlloc /\ [][NextAlloc]_vars

----------------------------------------------------------------------------
\* defaultOutput called by NumProcs runs at the same time against one temp
\* root: each run's os.Stat and os.Mkdir are separate steps that interleave
\* with the other runs' steps.

InitRace ==
    /\ variant = 1
    /\ cmd = "generate"
    /\ flags = [apiRoot |-> <<"src", "googleapis">>, apiPath |-> "google/spanner/v1",
                repoRoot |-> <<"repos">>, output |-> NoPath, language |-> "go",
                generatorInput |-> "", push |-> FALSE, githubToken |-> "", branch |-> ""]
    /\ parsed = flags
    /\ pc = "defaultOutput"
    /\ result = nil
    /\ calls = << >>
    /\ fs = {TempDir}
    /\ fs0 = fs
    /\ zone \in Zones
    /\ allocs = << >>
    /\ procs \in [1..NumProcs ->
                    [t : Now(zone), at : {"stat"}, stat : {""}, path : {NoPath}, err : {nil}]]
    /\ commands = Commands
    /\ lookups = << >>

\* Run p's os.Stat and the switch on its result.
RaceStat(p) ==
    /\ procs[p].at = "stat"
    /\ \E fault \in {"none", "stat"} :
         LET path == defaultOutputPath(procs[p].t)
             st   == Stat(fs, path, fault)
         IN  procs' = [procs EXCEPT ![p] =
               CASE st = "ENOENT" -> [@ EXCEPT !.at = "mkdir", !.stat = st]
                 [] st = "ok" ->
                      [@ EXCEPT !.at = "done", !.stat = st,
                         !.err = Err("default output path already exists", path, "", "")]
                 [] OTHER ->
                      [@ EXCEPT !.at = "done", !.stat = st,
                         !.err = Err("unable to check directory", path, "", st)]]
    /\ UNCHANGED <<variant, cmd, flags, parsed, pc, result, calls, fs, fs0, zone, allocs,
                   commands, lookups>>

\* Run p's os.Mkdir, after its os.Stat found nothing.
RaceMkdir(p) ==
    /\ procs[p].at = "mkdir"
    /\ \E fault \in {"none", "mkdir"} :
         LET path == defaultOutputPath(procs[p].t)
             r    == Mkdir(fs, path, fault)
         IN  /\ fs' = r.dirs
             /\ procs' = [procs EXCEPT ![p] =
                   IF r.errno = "ok"
                   THEN [@ EXCEPT !.at = "done", !.path = path]
                   ELSE [@ EXCEPT !.at = "done",
                           !.err = Err("unable to create default output path", path, "",
                                       r.errno)]]
    /\ UNCHANGED <<variant, cmd, flags, parsed, pc, result, calls, fs0, zone, allocs,
                   commands, lookups>>

NextRace == \E p \in 1..NumProcs : RaceStat(p) \/ RaceMkdir(p)

SpecRace == InitRace /\ [][NextRace]_vars

----------------------------------------------------------------------------
\* Lookup on its own: called up to MaxLookups times with names from Names.

Names == {"configure", "generate", "update-repo", "", "help", "Configure", "update"}

InitLookup ==
    /\ variant = 1
    /\ cmd = "generate"
    /\ flags = FlagDefaults
    /\ parsed = flags
    /\ pc = "validate"
    /\ result = nil
    /\ calls = << >>
    /\ fs = {TempDir}
    /\ fs0 = fs
    /\ zone = "UTC"
    /\ allocs = << >>
    /\ procs = << >>
    /\ commands = Commands
    /\ lookups = << >>

DoLookup ==
    /\ Len(lookups) < MaxLookups
    /\ \E name \in Names :
         LET r == Lookup(commands, name)
         IN  lookups' = Append(lookups, [name |-> name, cmd |-> r.cmd, err |-> r.err])
    /\ UNCHANGED <<variant, cmd, flags, parsed, pc, result, calls, fs, fs0, zone, allocs,
                   procs, commands>>

NextLookup == DoLookup

SpecLookup == InitLookup /\ [][NextLookup]_vars

----------------------------------------------------------------------------
\* Properties.

Called(op) == \E i \in 1..Len(calls) : calls[i].op = op

Terminated == pc \in {"done", "failed"}

\* Nothing was cloned, allocated, driven or published, and the disk is as
\* it was.
NoSideEffect == calls = << >> /\ fs = fs0

ValidationErrors ==
    {ErrAPIRoot, ErrAPIPath, ErrToken} \cup {ErrLanguage(l) : l \in Languages}

\* C1: in update-repo, a step that fails is the last step executed, and Run
\* returns exactly the error that step returned (both variants; the steps are
\* the clones, the allocation, generate, clean, build, commit and push).
C1_FirstFailureIsReturned ==
    cmd = "update-repo" =>
        \A i \in 1..Len(calls) :
            calls[i].err # nil =>
                /\ i = Len(calls)
                /\ pc = "failed"
                /\ result = calls[i].err

\* C1 witness: clean failed after generate succeeded; build, commit and push
\* did not run and clean's error was returned.
C1_Witness ==
    /\ cmd = "update-repo"
    /\ pc = "failed"
    /\ Len(calls) >= 2
    /\ calls[Len(calls)].op = "clean"
    /\ calls[Len(calls)].err \in ExtErrors
    /\ result = calls[Len(calls)].err
    /\ ~Called("build") /\ ~Called("commit") /\ ~Called("push")

\* C2: configure run with push=true and an empty githubToken never gets past
\* validation: it returns a validation error and makes no call and no change
\* on disk (both variants).
C2_ConfigurePushWithoutToken ==
    (cmd = "configure" /\ parsed.push /\ parsed.githubToken = "") =>
        /\ pc \in {"validate", "failed"}
        /\ NoSideEffect
        /\ pc = "failed" => result \in ValidationErrors

\* C2 witness: configure with every other parameter valid was rejected with
\* the -github-token error.
C2_Witness ==
    /\ cmd = "configure"
    /\ parsed.push /\ parsed.githubToken = ""
    /\ parsed.apiRoot # NoPath /\ parsed.apiPath # ""
    /\ parsed.language \in supportedLanguages
    /\ pc = "failed"
    /\ result = ErrToken

\* C3 as stated: in every workflow of every variant, an unsupported language
\* means no clone, no allocation and no driver call.
C3_Original ==
    parsed.language \notin supportedLanguages => NoSideEffect

\* C3 amended: in the first variant, in every workflow, an invocation with an
\* unsupported language never gets past validation and has no side effect.
C3_FirstVariantLanguageChecked ==
    (variant = 1 /\ parsed.language \notin supportedLanguages) =>
        /\ pc \in {"validate", "failed"}
        /\ NoSideEffect

\* C3 witness: generate of the first variant rejected an unsupported language.
C3_Witness ==
    /\ variant = 1
    /\ cmd = "generate"
    /\ parsed.language \notin supportedLanguages
    /\ pc = "failed"
    /\ result = ErrLanguage(parsed.language)
    /\ NoSideEffect

\* C4 as stated, on the commands of the first variant (the code the claim
\* names): configure and update-repo with push=true and an empty githubToken
\* are rejected by validation before any side effect.
C4_Original ==
    ( /\ variant = 1
      /\ cmd \in {"configure", "update-repo"}
      /\ parsed.push /\ parsed.githubToken = "" ) =>
        /\ NoSideEffect
        /\ pc # "done"
        /\ pc = "failed" => result \in ValidationErrors

\* C5 as stated: every workflow with an empty apiPath (configure: and a
\* non-empty apiRoot) returns the -api-path error and has no side effect.
C5_Original ==
    (parsed.apiPath = "" /\ (cmd = "configure" => parsed.apiRoot # NoPath)) =>
        /\ NoSideEffect
        /\ pc # "done"
        /\ pc = "failed" => result = ErrAPIPath

\* C6: configure reports the first failing check in the order apiRoot,
\* apiPath, language, push/token, and only that one (the language check is
\* the first variant's); with apiRoot and apiPath both missing the error is
\* the -api-root one in both variants, whatever the other parameters.
C6_ConfigureValidationOrder ==
    LET expected ==
            IF parsed.apiRoot = NoPath THEN ErrAPIRoot
            ELSE IF parsed.apiPath = "" THEN ErrAPIPath
            ELSE IF variant = 1 /\ parsed.language \notin supportedLanguages
                 THEN ErrLanguage(parsed.language)
            ELSE IF parsed.push /\ parsed.githubToken = "" THEN ErrToken
            ELSE nil
    IN  (cmd = "configure" /\ pc # "validate") =>
            IF expected # nil
            THEN pc = "failed" /\ result = expected /\ calls = << >>
            ELSE pc = "configure" \/ Called("configure")

\* C6 witness: configure with apiRoot and apiPath both missing, and the
\* language and token checks failing too, reported -api-root.
C6_Witness ==
    /\ cmd = "configure"
    /\ variant = 1
    /\ parsed.apiRoot = NoPath /\ parsed.apiPath = ""
    /\ parsed.language \notin supportedLanguages
    /\ parsed.push /\ parsed.githubToken = ""
    /\ pc = "failed"
    /\ result = ErrAPIRoot

\* C7: update-repo with apiPath present and a supported language, in which
\* every step that ran succeeded, ends at the end of the chain: push was the
\* last call, after generate, clean, build and commit, and no error is
\* returned.
C7_UpdateRepoSucceeds ==
    ( /\ cmd = "update-repo"
      /\ parsed.apiPath # "" /\ parsed.language \in supportedLanguages
      /\ Terminated
      /\ \A i \in 1..Len(calls) : calls[i].err = nil ) =>
        /\ pc = "done"
        /\ result = nil
        /\ Len(calls) >= 5
        /\ calls[Len(calls)].op = "push"
        /\ Called("generate") /\ Called("clean") /\ Called("build") /\ Called("commit")

\* C7 witness: an update-repo run in which all steps succeeded returned nil
\* (the second variant; commit of the first variant never succeeds).
C7_Witness ==
    /\ cmd = "update-repo"
    /\ parsed.apiPath # "" /\ parsed.language \in supportedLanguages
    /\ pc = "done"
    /\ result = nil
    /\ calls[Len(calls)].op = "push"
    /\ \A i \in 1..Len(calls) : calls[i].err = nil

\* The instants a and b fall in the same second.
SameSecond(a, b) == a.sec = b.sec

\* The instant b is at least one second after the instant a.
SecondApart(a, b) ==
    \/ b.sec - a.sec > 1
    \/ (b.sec - a.sec = 1 /\ b.nsec >= a.nsec)

\* C8 as stated: of the first two allocate calls on a temp root holding
\* neither directory (the filesystem calls themselves not failing), timestamps
\* in the same second name the same path, the first call succeeds and the
\* second fails with "already exists" and changes nothing; timestamps at least
\* one second apart name distinct paths and both calls succeed.
C8_Original ==
    (Len(allocs) >= 2 /\ allocs[1].fault = "none" /\ allocs[2].fault = "none") =>
        LET a  == allocs[1]
            b  == allocs[2]
            pa == defaultOutputPath(a.t)
            pb == defaultOutputPath(b.t)
        IN  /\ SameSecond(a.t, b.t) =>
                  /\ pa = pb
                  /\ a.err = nil /\ a.path = pa
                  /\ b.err = Err("default output path already exists", pb, "", "")
                  /\ b.after = b.before
            /\ SecondApart(a.t, b.t) =>
                  /\ pa # pb
                  /\ a.err = nil /\ a.path = pa
                  /\ b.err = nil /\ b.path = pb
                  /\ {pa, pb} \subseteq b.after

\* C9 as stated: the flag variables keep the values parsed from the command
\* line through every step of every workflow.
C9_Original == flags = parsed

\* C9 amended: apiPath, language, generatorInput, push, githubToken and branch
\* never change; apiRoot, repoRoot and output change only from empty, and only
\* by the successful resolution step (clone of the API definitions, clone of
\* the language repository in generate, allocation); configure changes nothing.
C9_OnlyEmptyPathsAreResolved ==
    LET ok(op) == \E i \in 1..Len(calls) : calls[i].op = op /\ calls[i].err = nil
    IN  /\ \A k \in {"apiPath", "language", "generatorInput", "push", "githubToken", "branch"} :
              flags[k] = parsed[k]
        /\ flags.apiRoot # parsed.apiRoot =>
              parsed.apiRoot = NoPath /\ ok("cloneGoogleapis")
        /\ flags.repoRoot # parsed.repoRoot =>
              parsed.repoRoot = NoPath /\ cmd = "generate" /\ ok("cloneLanguageRepo")
        /\ flags.output # parsed.output =>
              parsed.output = NoPath /\ ok("defaultOutput")
        /\ cmd = "configure" => flags = parsed

\* C9 witness: a generate run that resolved all three of apiRoot, repoRoot
\* and output, while the caller's other parameters were non-empty.
C9_Witness ==
    /\ cmd = "generate"
    /\ flags.apiRoot # parsed.apiRoot
    /\ flags.repoRoot # parsed.repoRoot
    /\ flags.output # parsed.output
    /\ parsed.generatorInput # "" /\ parsed.githubToken # "" /\ parsed.branch # ""
    /\ pc = "done"

\* The order of generate's steps after validation.
GenerateOrder ==
    <<"cloneGoogleapis", "cloneLanguageRepo", "verifyLanguageRepoExists",
      "defaultOutput", "generate">>

\* C10: in generate (first variant) calls are made only after validation
\* passed, in the order clone of the API definitions, clone of the language
\* repository, verification, allocation, driver generate, each at most once;
\* each clone and the allocation happen exactly when the parameter was empty,
\* repoRoot becomes the parent of the clone, a supplied value is used as it
\* is, and generate is the last call, made once with the resolved apiRoot and
\* output.
C10_GenerateResolution ==
    (variant = 1 /\ cmd = "generate") =>
        LET n        == Len(calls)
            pos(i)   == Index(GenerateOrder, calls[i].op)
            apiRoot  == IF parsed.apiRoot = NoPath THEN GoogleapisDir ELSE parsed.apiRoot
            repoRoot == IF parsed.repoRoot = NoPath
                        THEN Dir(LanguageRepoDir(parsed.language))
                        ELSE parsed.repoRoot
        IN  /\ \A i \in 1..n : \E k \in 1..Len(GenerateOrder) : GenerateOrder[k] = calls[i].op
            /\ \A i, j \in 1..n : i < j => pos(i) < pos(j)
            /\ n > 0 => parsed.apiPath # "" /\ parsed.language \in supportedLanguages
            /\ Called("cloneGoogleapis") => parsed.apiRoot = NoPath
            /\ Called("cloneLanguageRepo") => parsed.repoRoot = NoPath
            /\ Called("defaultOutput") => parsed.output = NoPath
            /\ \A i \in 1..n :
                  calls[i].op = "verifyLanguageRepoExists" =>
                      /\ Called("cloneGoogleapis") <=> parsed.apiRoot = NoPath
                      /\ Called("cloneLanguageRepo") <=> parsed.repoRoot = NoPath
                      /\ calls[i].repoRoot = repoRoot
                      /\ calls[i].apiRoot = apiRoot
                      /\ flags.repoRoot = repoRoot
            /\ \A i \in 1..n :
                  calls[i].op = "generate" =>
                      /\ i = n
                      /\ \E j \in 1..n :
                            calls[j].op = "verifyLanguageRepoExists" /\ calls[j].err = nil
                      /\ Called("defaultOutput") <=> parsed.output = NoPath
                      /\ calls[i].apiRoot = apiRoot
                      /\ IF parsed.output = NoPath
                         THEN /\ calls[i].output \in fs \ fs0
                              /\ Dir(calls[i].output) = TempDir
                         ELSE calls[i].output = parsed.output
            /\ pc = "done" => n > 0 /\ calls[n].op = "generate"

\* C10 witness: a generate run with apiRoot, repoRoot and output all empty
\* made the five calls and returned nil.
C10_Witness ==
    /\ variant = 1 /\ cmd = "generate"
    /\ parsed.apiRoot = NoPath /\ parsed.repoRoot = NoPath /\ parsed.output = NoPath
    /\ Len(calls) = 5
    /\ pc = "done"
    /\ result = nil

\* C10 witness of the other case: every input supplied, so generate made
\* only the verification and the driver call.
C10_WitnessSupplied ==
    /\ variant = 1 /\ cmd = "generate"
    /\ parsed.apiRoot # NoPath /\ parsed.repoRoot # NoPath /\ parsed.output # NoPath
    /\ Len(calls) = 2
    /\ pc = "done"

\* The number of calls of op made so far.
Count(op) == Cardinality({i \in 1..Len(calls) : calls[i].op = op})

\* C11: in update-repo (first variant) the language repository is cloned
\* whether or not repoRoot is set: once validation, the API-root resolution
\* and the allocation are behind, exactly one clone has been made, never two,
\* and driver generate is called only after that clone succeeded.
C11_UpdateRepoAlwaysClones ==
    (variant = 1 /\ cmd = "update-repo") =>
        LET n      == Len(calls)
            before == {"validate", "cloneGoogleapis", "defaultOutput", "cloneLanguageRepo"}
            early  == /\ pc = "failed"
                      /\ (n = 0 \/ calls[n].op \in {"cloneGoogleapis", "defaultOutput"})
        IN  /\ Count("cloneLanguageRepo") <= 1
            /\ (pc \notin before /\ ~early) => Count("cloneLanguageRepo") = 1
            /\ \A i \in 1..n :
                  calls[i].op = "generate" =>
                      \E j \in 1..(i - 1) :
                          calls[j].op = "cloneLanguageRepo" /\ calls[j].err = nil

\* C11 witness: update-repo given a repoRoot (and an apiRoot and an output)
\* cloned the language repository and then called generate.
C11_Witness ==
    /\ variant = 1 /\ cmd = "update-repo"
    /\ parsed.repoRoot # NoPath /\ parsed.apiRoot # NoPath /\ parsed.output # NoPath
    /\ Len(calls) >= 2
    /\ calls[1].op = "cloneLanguageRepo" /\ calls[1].err = nil
    /\ calls[2].op = "generate"

\* C12: in every workflow a failure aborts the rest and is terminal: no
\* operation is executed twice in an invocation, only the last call can have
\* failed, a run that has ended takes no further step, it ended in done with
\* nil or in failed with the error of validation or of the failing call, and
\* (every call returning) each run does end.
C12_NoRetryAndTermination ==
    /\ [](\A i, j \in 1..Len(calls) : i < j => calls[i].op # calls[j].op)
    /\ [](\A i \in 1..Len(calls) : calls[i].err # nil => i = Len(calls))
    /\ [](pc = "done" => result = nil /\ \A i \in 1..Len(calls) : calls[i].err = nil)
    /\ [](pc = "failed" =>
             /\ result # nil
             /\ IF calls = << >> THEN result \in ValidationErrors
                ELSE result = calls[Len(calls)].err)
    /\ [][Terminated => UNCHANGED vars]_vars
    /\ <>Terminated

\* C12 witness: an update-repo run got through seven calls and ended in
\* failed at commit, each operation executed once.
C12_Witness ==
    /\ cmd = "update-repo"
    /\ pc = "failed"
    /\ Len(calls) = 7
    /\ calls[7].op = "commit"
    /\ result = calls[7].err

\* Run p's defaultOutput returned a directory.
GotDirectory(p) == procs[p].at = "done" /\ procs[p].err = nil

\* C13: of the allocate calls that run at the same time with timestamps in
\* the same second, which name the same path, at most one returns a
\* directory, in every interleaving of their checks and creations; no
\* directory is returned to two runs, and a returned directory exists.
C13_AtMostOneGetsDirectory ==
    /\ \A p, q \in 1..NumProcs :
          (p # q /\ SameSecond(procs[p].t, procs[q].t)) =>
              /\ defaultOutputPath(procs[p].t) = defaultOutputPath(procs[q].t)
              /\ ~(GotDirectory(p) /\ GotDirectory(q))
    /\ \A p, q \in 1..NumProcs :
          (p # q /\ GotDirectory(p) /\ GotDirectory(q)) => procs[p].path # procs[q].path
    /\ \A p \in 1..NumProcs :
          GotDirectory(p) =>
              procs[p].path = defaultOutputPath(procs[p].t) /\ procs[p].path \in fs

\* C13 witness: two runs in the same second both found no directory, then
\* one created it and the other's creation failed because it was there.
C13_Witness ==
    \E p, q \in 1..NumProcs :
        /\ p # q
        /\ SameSecond(procs[p].t, procs[q].t)
        /\ procs[p].stat = "ENOENT" /\ procs[q].stat = "ENOENT"
        /\ GotDirectory(p)
        /\ procs[q].at = "done"
        /\ procs[q].err = Err("unable to create default output path",
                              defaultOutputPath(procs[q].t), "", "EEXIST")

\* The error os.Stat itself returned, with nothing added.
OSError(errno) == Err(errno, NoPath, "", "")

\* What C14 says of a verifyLanguageRepoExists call of generate, other being
\* the error returned for a filesystem error other than not-exist: nil only
\* if the path repoRoot/google-cloud-<language> exists, "language repo not
\* found" only if it does not, and after an error generate ends with that
\* error, no output directory allocated and the driver not called.
VerifyOutcome(other(_, _)) ==
    (variant = 1 /\ cmd = "generate") =>
        \A i \in 1..Len(calls) :
            calls[i].op = "verifyLanguageRepoExists" =>
                LET path == Join(calls[i].repoRoot, LanguageRepoName(calls[i].language))
                    e    == calls[i].err
                IN  /\ \/ e = nil
                       \/ e = Err("language repo not found", path, "", "")
                       \/ e = other(path, "EACCES")
                    /\ e = nil => path \in fs
                    /\ e = Err("language repo not found", path, "", "") => path \notin fs
                    /\ e # nil =>
                          /\ pc = "failed" /\ result = e
                          /\ ~Called("defaultOutput") /\ ~Called("generate")
                          /\ flags.output = parsed.output
                          /\ fs \ fs0 \subseteq
                                {CloneParent, GoogleapisDir, LanguageRepoDir(calls[i].language)}

AsIs(path, errno) == OSError(errno)

Wrapped(path, errno) == Err("unable to check language repo", path, "", errno)

\* C14 as stated: verifyLanguageRepoExists returns a filesystem error other
\* than not-exist as it is (and nil, "language repo not found" and the abort
\* of generate as above).
C14_Original == VerifyOutcome(AsIs)

\* C14 amended: for a filesystem error other than not-exist
\* verifyLanguageRepoExists returns a new error, "unable to check language
\* repo", that names the path and wraps the filesystem error; the rest as
\* stated.
C14_VerifyLanguageRepo == VerifyOutcome(Wrapped)

\* C14 witness: os.Stat failed with a permission error, and generate ended
\* with the wrapping error before allocating anything.
C14_Witness ==
    /\ variant = 1 /\ cmd = "generate"
    /\ parsed.output = NoPath
    /\ pc = "failed"
    /\ calls # << >>
    /\ calls[Len(calls)].op = "verifyLanguageRepoExists"
    /\ result = Wrapped(Join(flags.repoRoot, LanguageRepoName(flags.language)), "EACCES")

\* C14 witness of the not-found case: the caller's repoRoot holds no
\* language repository.
C14_WitnessNotFound ==
    /\ variant = 1 /\ cmd = "generate"
    /\ parsed.repoRoot # NoPath
    /\ pc = "failed"
    /\ result = Err("language repo not found",
                    Join(parsed.repoRoot, LanguageRepoName(parsed.language)), "", "")

\* C15: in generate and update-repo nothing is rolled back: the directories
\* that were there stay, and once the allocator has created the working
\* directory it exists in every later state, also after a later step failed.
C15_NoRollback ==
    cmd \in {"generate", "update-repo"} =>
        /\ fs0 \subseteq fs
        /\ \A i \in 1..Len(calls) :
              (calls[i].op = "defaultOutput" /\ calls[i].err = nil) =>
                  /\ flags.output \in fs \ fs0
                  /\ Dir(flags.output) = TempDir

\* C15 witness: update-repo allocated its working directory, clean failed
\* later, and the directory is still there.
C15_Witness ==
    /\ cmd = "update-repo"
    /\ pc = "failed"
    /\ \E i \in 1..Len(calls) : calls[i].op = "defaultOutput" /\ calls[i].err = nil
    /\ calls[Len(calls)].op = "clean"
    /\ calls[Len(calls)].err # nil
    /\ flags.output \in fs \ fs0

\* C16: in the first variant no update-repo run executes push or returns
\* nil: a run that reaches commit fails there with "commit is not
\* implemented", and every ended run is failed.
C16_FirstVariantNeverPushes ==
    (variant = 1 /\ cmd = "update-repo") =>
        /\ ~Called("push")
        /\ pc \notin {"push", "done"}
        /\ Terminated => pc = "failed" /\ result # nil
        /\ Called("commit") =>
              /\ pc = "failed"
              /\ result = Err("commit is not implemented", NoPath, "", "")

\* C16 witness: generate, clean and build succeeded and the run failed at
\* commit.
C16_Witness ==
    /\ variant = 1 /\ cmd = "update-repo"
    /\ Called("build")
    /\ calls[Len(calls)].op = "commit"
    /\ \A i \in 1..(Len(calls) - 1) : calls[i].err = nil
    /\ pc = "failed"
    /\ result.msg = "commit is not implemented"

\* C17 as stated: every flag variable a command's Run reads is a flag of
\* that command's own flag set, so it can be given on its command line.
C17_Original == Reads(variant, cmd) \subseteq Registered(variant, cmd)

\* What the code does instead in the case C17 names: with the flag variables
\* populated by configure's own flag set, no run with -push=true gets past
\* validation to the driver, because -github-token cannot be given.
C17_PushNeverConfigures ==
    (cmd = "configure" /\ parsed.push) =>
        /\ parsed.githubToken = ""
        /\ pc \in {"validate", "failed"}
        /\ ~Called("configure")

\* C18: Lookup(name) returns a command and nil exactly when name is
\* configure, generate or update-repo, and the command is then the one of
\* that Name (the Names in Commands are distinct); for every other name it
\* returns the nil command and "invalid command" with the name; Commands is
\* left as it was.
C18_Lookup ==
    /\ \A i \in 1..Len(lookups) :
          LET l == lookups[i]
          IN  /\ l.err = nil <=> l.name \in {"configure", "generate", "update-repo"}
              /\ l.err = nil =>
                    /\ l.cmd \in 1..Len(commands)
                    /\ commands[l.cmd].Name = l.name
                    /\ \A j \in 1..Len(commands) : commands[j].Name = l.name => j = l.cmd
              /\ l.err # nil =>
                    /\ l.cmd = NilCommand
                    /\ l.err = Err("invalid command", NoPath, l.name, "")
    /\ commands =
          << [Name |-> "configure", Short |-> "Configure a new API in a given language"],
             [Name |-> "generate", Short |-> "Generate a new client library"],
             [Name |-> "update-repo", Short |-> "Configure a new API in a given language"] >>

\* C18 witness: update-repo was looked up and found, and a name that is no
\* command was looked up and rejected.
C18_Witness ==
    \E i, j \in 1..Len(lookups) :
        /\ lookups[i].name = "update-repo"
        /\ lookups[i].err = nil
        /\ commands[lookups[i].cmd].Name = "update-repo"
        /\ lookups[j].name = "Configure"
        /\ lookups[j].cmd = NilCommand
        /\ lookups[j].err.msg = "invalid command"

====
